---- MODULE Spec2Model ----
(***************************************************************************)
(* The tag algebra of infinigen/core/tags.py: the tag kinds, negation,     *)
(* decomposition of a tag set, contradiction, implies, satisfies,          *)
(* difference, the canonicalization functions to_tag, to_string and       *)
(* to_tag_set and the vocabulary listings; and the post-processing and     *)
(* validation of parsed constraints in infinigen_examples/nlp.             *)
(*                                                                         *)
(* A tag is a record with a "kind" field naming its Python class.          *)
(* Equality of records is the equality Python gives the classes: enum      *)
(* members by member, frozen dataclasses by class and fields, and a        *)
(* StringTag (a plain class with no __eq__) by object identity, kept in    *)
(* the field "id".                                                         *)
(***************************************************************************)
EXTENDS Integers, FiniteSets, Sequences, TLC

VARIABLES
    op,     \* the call that produced ret ("init" before any call)
    t1,     \* first tag-set argument
    t2,     \* second tag-set argument
    arg,    \* the argument of the last call
    ret,    \* the value the call returned, or the exception it raised
    heap,   \* the tag values constructed so far
    context, \* the fac_context argument of a canonicalization call
    parsed_data, \* the dict of parsed constraints the NLP pipeline works on
    input_text,  \* the natural-language input handed to post-processing
    exclusive_arg \* the exclusive argument of stage_types_to_stage_flags

vars == <<op, t1, t2, arg, ret, heap, context, parsed_data, input_text, exclusive_arg>>

-----------------------------------------------------------------------------
(* Bounds of the model *)

\* largest first operand of a relation operator
MaxT1 == 3
\* largest second operand of a relation operator
MaxT2 == 2
\* number of tag values alive at once in the negation model
MaxHeap == 3
\* number of distinct StringTag objects
MaxObjId == 2
\* largest third tag set a pair of operands is compared against
MaxS == 2
\* longest text handed to to_tag, in tokens
MaxTextLen == 3
\* longest collection handed to to_tag_set
MaxListLen == 2
\* longest restrict_parent_objs / restrict_child_primary handed to validation
MaxObjs == 1
\* longest restrict_child_secondary handed to validation
MaxSecondary == 2

-----------------------------------------------------------------------------
(* Tag kinds *)

SemanticsNames == {"Kitchen", "Bedroom"}
SubpartNames == {"Top"}
Descriptions == {"wooden"}
Generators == {"CounterGen", "SinkGen"}
Names == {"x", "y"}

Semantics(n) == [kind |-> "Semantics", name |-> n]
Subpart(n) == [kind |-> "Subpart", name |-> n]
StringTag(d, i) == [kind |-> "StringTag", desc |-> d, id |-> i]
FromGenerator(g) == [kind |-> "FromGenerator", generator |-> g]
Variable(n) == [kind |-> "Variable", name |-> n]
SpecificObject(n) == [kind |-> "SpecificObject", name |-> n]

\* a raised exception, as a value
Raise(e) == [kind |-> "Raise", exc |-> e]
\* Python's None, and the value of ret before any call
None == [kind |-> "None"]

isinstance(t, k) == t.kind = k

\* Negated without its __post_init__ check
Negated_unchecked(tag) == [kind |-> "Negated", tag |-> tag]

\* Negated(tag): the dataclass constructor followed by __post_init__
Negated(tag) ==
    IF isinstance(tag, "Negated")
    THEN Raise("AssertionError")
    ELSE [kind |-> "Negated", tag |-> tag]

\* Tag.__neg__
Tag_neg(self) == Negated(self)

\* Negated without its own __neg__: the one inherited from Tag
Negated_neg_inherited(self) == Tag_neg(self)

\* Negated.__neg__
Negated_neg(self) == self.tag

\* -x: Python dispatches on the class of x
neg(x) == IF isinstance(x, "Negated") THEN Negated_neg(x) ELSE Tag_neg(x)

-----------------------------------------------------------------------------
(* Decomposition and consistency *)

RECURSIVE decompose_loop(_, _, _)
decompose_loop(rest, positive, negative) ==
    IF rest = {}
    THEN <<positive, negative>>
    ELSE LET t == CHOOSE e \in rest : TRUE
         IN IF isinstance(t, "Negated")
            THEN decompose_loop(rest \ {t}, positive, negative \cup {t.tag})
            ELSE decompose_loop(rest \ {t}, positive \cup {t}, negative)

\* decompose_tags that adds the Negated element itself, not its inner tag
decompose_tags_wrapped(tags) ==
    <<{t \in tags : ~isinstance(t, "Negated")}, {t \in tags : isinstance(t, "Negated")}>>

decompose_tags(tags) == decompose_loop(tags, {}, {})

\* contradiction without the FromGenerator count
contradiction_noGenerators(tags) ==
    LET d == decompose_tags(tags)
    IN \/ d[1] \cap d[2] # {}
       \/ Cardinality({t \in tags : isinstance(t, "SpecificObject")
                                    \/ isinstance(t, "Variable")}) > 1

\* contradiction counting Variable / SpecificObject tags inside Negated as well
contradiction_bothPolarities(tags) ==
    LET d == decompose_tags(tags)
    IN \/ d[1] \cap d[2] # {}
       \/ Cardinality({t \in d[1] : isinstance(t, "FromGenerator")}) > 1
       \/ Cardinality({t \in d[1] \cup d[2] : isinstance(t, "SpecificObject")
                                               \/ isinstance(t, "Variable")}) > 1

\* contradiction counting FromGenerator tags inside Negated as well
contradiction_allGenerators(tags) ==
    LET d == decompose_tags(tags)
    IN \/ d[1] \cap d[2] # {}
       \/ Cardinality({t \in d[1] \cup d[2] : isinstance(t, "FromGenerator")}) > 1
       \/ Cardinality({t \in tags : isinstance(t, "SpecificObject")
                                    \/ isinstance(t, "Variable")}) > 1

contradiction(tags) ==
    LET d == decompose_tags(tags)
        pos == d[1]
        neg_ == d[2]
    IN IF pos \cap neg_ # {}
       THEN TRUE
       ELSE IF Cardinality({t \in pos : isinstance(t, "FromGenerator")}) > 1
       THEN TRUE
       ELSE IF Cardinality({t \in tags : isinstance(t, "SpecificObject")
                                         \/ isinstance(t, "Variable")}) > 1
       THEN TRUE
       ELSE FALSE

-----------------------------------------------------------------------------
(* Relation operators *)

\* implies without the consistency check of its first operand
implies_unchecked(a, b) ==
    LET d1 == decompose_tags(a)
        d2 == decompose_tags(b)
    IN d2[1] \subseteq d1[1] /\ d2[2] \subseteq d1[2]

\* implies with the operands of the positive issuperset exchanged
implies_swapped(a, b) ==
    LET d1 == decompose_tags(a)
        d2 == decompose_tags(b)
    IN ~contradiction(a) /\ d1[1] \subseteq d2[1] /\ d2[2] \subseteq d1[2]

\* implies without the comparison of the negative parts
implies_positivesOnly(a, b) ==
    LET d1 == decompose_tags(a)
        d2 == decompose_tags(b)
    IN ~contradiction(a) /\ d2[1] \subseteq d1[1]

implies(a, b) ==
    LET d1 == decompose_tags(a)
        d2 == decompose_tags(b)
    IN ~contradiction(a) /\ d2[1] \subseteq d1[1] /\ d2[2] \subseteq d1[2]

\* satisfies without the check of t2's negatives against t1's positives
satisfies_oneWay(a, b) ==
    LET d1 == decompose_tags(a)
        d2 == decompose_tags(b)
    IN d2[1] \subseteq d1[1] /\ d1[2] \cap d2[1] = {}

\* satisfies with the operands of issuperset exchanged
satisfies_swapped(a, b) ==
    LET d1 == decompose_tags(a)
        d2 == decompose_tags(b)
    IN d1[1] \subseteq d2[1] /\ d1[2] \cap d2[1] = {} /\ d2[2] \cap d1[1] = {}

satisfies(a, b) ==
    LET d1 == decompose_tags(a)
        d2 == decompose_tags(b)
    IN d2[1] \subseteq d1[1] /\ d1[2] \cap d2[1] = {} /\ d2[2] \cap d1[1] = {}

\* difference that does not remove t1's negatives from t2's
difference_keepsNegatives(a, b) ==
    LET d1 == decompose_tags(a)
        d2 == decompose_tags(b)
        pos == d1[1] \cup d2[2]
        neg_ == d1[2] \cup (d2[1] \ d1[1])
        made == {Negated(n) : n \in neg_}
    IN IF \E m \in made : isinstance(m, "Raise")
       THEN Raise("AssertionError")
       ELSE pos \cup made

\* difference that removes from t1's positives those it shares with t2
difference_dropsShared(a, b) ==
    LET d1 == decompose_tags(a)
        d2 == decompose_tags(b)
        pos == (d1[1] \ d2[1]) \cup (d2[2] \ d1[2])
        neg_ == d1[2] \cup (d2[1] \ d1[1])
        made == {Negated(n) : n \in neg_}
    IN IF \E m \in made : isinstance(m, "Raise")
       THEN Raise("AssertionError")
       ELSE pos \cup made

difference(a, b) ==
    LET d1 == decompose_tags(a)
        d2 == decompose_tags(b)
        pos == d1[1] \cup (d2[2] \ d1[2])
        neg_ == d1[2] \cup (d2[1] \ d1[1])
        made == {Negated(n) : n \in neg_}
    IN IF \E m \in made : isinstance(m, "Raise")
       THEN Raise("AssertionError")
       ELSE pos \cup made

-----------------------------------------------------------------------------
(* The tag sets the relation operators are applied to *)

AlgebraBase ==
    {Semantics("Kitchen")}
    \cup {FromGenerator(g) : g \in Generators}
    \cup {Variable(n) : n \in Names}
    \cup {SpecificObject("y")}

AlgebraTags == AlgebraBase \cup {Negated(t) : t \in AlgebraBase}

TagSets(n) == {S \in SUBSET AlgebraTags : Cardinality(S) <= n}

Init ==
    /\ op = "init"
    /\ t1 \in TagSets(MaxT1)
    /\ t2 \in TagSets(MaxT2)
    /\ arg = None
    /\ ret = None
    /\ heap = {}
    /\ context = None
    /\ parsed_data = None
    /\ input_text = None
    /\ exclusive_arg = None

CallDecompose ==
    /\ op = "init"
    /\ op' = "decompose"
    /\ ret' = decompose_tags(t1)
    /\ UNCHANGED <<t1, t2, arg, heap, context, parsed_data, input_text, exclusive_arg>>

CallContradiction ==
    /\ op = "init"
    /\ op' = "contradiction"
    /\ ret' = contradiction(t1)
    /\ UNCHANGED <<t1, t2, arg, heap, context, parsed_data, input_text, exclusive_arg>>

CallImplies ==
    /\ op = "init"
    /\ op' = "implies"
    /\ ret' = implies(t1, t2)
    /\ UNCHANGED <<t1, t2, arg, heap, context, parsed_data, input_text, exclusive_arg>>

CallSatisfies ==
    /\ op = "init"
    /\ op' = "satisfies"
    /\ ret' = satisfies(t1, t2)
    /\ UNCHANGED <<t1, t2, arg, heap, context, parsed_data, input_text, exclusive_arg>>

CallDifference ==
    /\ op = "init"
    /\ op' = "difference"
    /\ ret' = difference(t1, t2)
    /\ UNCHANGED <<t1, t2, arg, heap, context, parsed_data, input_text, exclusive_arg>>

Next ==
    \/ CallDecompose
    \/ CallContradiction
    \/ CallImplies
    \/ CallSatisfies
    \/ CallDifference

Spec == Init /\ [][Next]_vars

-----------------------------------------------------------------------------
(* Construction and negation of tags.  heap holds the tag values that      *)
(* have been constructed; the members of the two vocabularies exist from   *)
(* the import of the module on.                                            *)

EnumMembers ==
    {Semantics(n) : n \in SemanticsNames} \cup {Subpart(n) : n \in SubpartNames}

Existing == EnumMembers \cup heap

\* an object identity no live StringTag has
FreshIds == {i \in 1..MaxObjId : \A v \in heap : v.kind = "StringTag" => v.id # i}

\* the heap after a call returned v
Keep(v) == IF v.kind = "Raise" \/ v \in EnumMembers THEN heap ELSE heap \cup {v}

InitNegate ==
    /\ op = "init"
    /\ t1 = {}
    /\ t2 = {}
    /\ arg = None
    /\ ret = None
    /\ heap = {}
    /\ context = None
    /\ parsed_data = None
    /\ input_text = None
    /\ exclusive_arg = None

\* room for the value a call returns
Fits(v) == Cardinality(Keep(v)) <= MaxHeap

Returned(name, x, v) ==
    /\ op' = name
    /\ arg' = x
    /\ ret' = v
    /\ heap' = Keep(v)
    /\ UNCHANGED <<t1, t2, context, parsed_data, input_text, exclusive_arg>>

NewStringTag ==
    \E d \in Descriptions :
        /\ FreshIds # {}
        /\ Fits(StringTag(d, CHOOSE i \in FreshIds : TRUE))
        /\ Returned("StringTag", None, StringTag(d, CHOOSE i \in FreshIds : TRUE))

NewFromGenerator ==
    \E g \in Generators :
        /\ Fits(FromGenerator(g))
        /\ Returned("FromGenerator", None, FromGenerator(g))

NewVariable ==
    \E n \in Names :
        /\ Fits(Variable(n))
        /\ Returned("Variable", None, Variable(n))

NewSpecificObject ==
    \E n \in Names :
        /\ Fits(SpecificObject(n))
        /\ Returned("SpecificObject", None, SpecificObject(n))

\* Negated(x), called directly
CallNegated ==
    \E x \in Existing :
        /\ Fits(Negated(x))
        /\ Returned("Negated", x, Negated(x))

\* -x
CallNeg ==
    \E x \in Existing :
        /\ Fits(neg(x))
        /\ Returned("neg", x, neg(x))

NextNegate ==
    \/ NewStringTag
    \/ NewFromGenerator
    \/ NewVariable
    \/ NewSpecificObject
    \/ CallNegated
    \/ CallNeg

SpecNegate == InitNegate /\ [][NextNegate]_vars

-----------------------------------------------------------------------------
(* Canonicalization: to_tag and to_string.                                 *)
(*                                                                         *)
(* A Python str is a sequence of tokens: the characters "-", "'" and the   *)
(* double quote each are a token, and a maximal run of other characters    *)
(* (a word) is one token, so no two words are adjacent.  A class is named  *)
(* by its identity; fac_context is None or a dict, of which only the keys  *)
(* are read.                                                               *)

Str(chars) == [kind |-> "str", chars |-> chars]
Type(cls) == [kind |-> "type", cls |-> cls]
Dict(keys) == [kind |-> "dict", keys |-> keys]

TagKinds ==
    {"Semantics", "Subpart", "StringTag", "FromGenerator", "Negated", "Variable",
     "SpecificObject"}

\* isinstance(s, Tag)
IsTag(s) == s.kind \in TagKinds

\* cls.__name__
type_name(cls) == <<cls>>

\* member.value
EnumValue(member) ==
    CASE member = Semantics("Kitchen") -> <<"kitchen">>
      [] member = Semantics("Bedroom") -> <<"bedroom">>
      [] member = Subpart("Top") -> <<"top">>

QuoteChars == {"\"", "'"}

\* s.startswith(c), c one character
str_startswith(s, c) == Len(s) > 0 /\ s[1] = c

RECURSIVE str_lstrip(_, _)
str_lstrip(s, cs) ==
    IF Len(s) > 0 /\ s[1] \in cs THEN str_lstrip(Tail(s), cs) ELSE s

RECURSIVE str_rstrip(_, _)
str_rstrip(s, cs) ==
    IF Len(s) > 0 /\ s[Len(s)] \in cs
    THEN str_rstrip(SubSeq(s, 1, Len(s) - 1), cs)
    ELSE s

\* strip that removes the leading characters only
str_strip_leading(s, cs) == str_lstrip(s, cs)

\* s.strip(cs)
str_strip(s, cs) == str_rstrip(str_lstrip(s, cs), cs)

\* bool(fac_context)
Truthy(fac_context) == fac_context.kind = "dict" /\ fac_context.keys # {}

\* the type branch of to_tag without the membership test
resolve_type_unchecked(s, fac_context) ==
    IF ~Truthy(fac_context)
    THEN Raise("ValueError: to_tag got s but fac_context is empty")
    ELSE FromGenerator(s.cls)

\* to_tag, the branch of a class
resolve_type(s, fac_context) ==
    IF ~Truthy(fac_context)
    THEN Raise("ValueError: to_tag got s but fac_context is empty")
    ELSE IF s.cls \notin fac_context.keys
    THEN Raise("ValueError: s of type=type was not in fac_context")
    ELSE FromGenerator(s.cls)

\* next((f for f in fac_context.keys() if f.__name__ == s), None)
match_generator(chars, fac_context) ==
    IF fac_context.kind = "dict" /\ \E f \in fac_context.keys : type_name(f) = chars
    THEN Type(CHOOSE f \in fac_context.keys : type_name(f) = chars)
    ELSE None

\* the vocabulary lookup that reads the member's value, not its name
lookup_vocabulary_byValue(chars) ==
    IF \E m \in {Semantics(n) : n \in SemanticsNames} \cup {Subpart(n) : n \in SubpartNames} :
          EnumValue(m) = chars
    THEN CHOOSE m \in {Semantics(n) : n \in SemanticsNames} \cup {Subpart(n) : n \in SubpartNames} :
          EnumValue(m) = chars
    ELSE Raise("ValueError: could not resolve s, see tags.Semantics and tags.Subpart")

\* Semantics[s], then Subpart[s], then the ValueError
lookup_vocabulary(chars) ==
    IF Len(chars) = 1 /\ chars[1] \in SemanticsNames
    THEN Semantics(chars[1])
    ELSE IF Len(chars) = 1 /\ chars[1] \in SubpartNames
    THEN Subpart(chars[1])
    ELSE Raise("ValueError: could not resolve s, see tags.Semantics and tags.Subpart")

\* Negated(inner), inner the result of a call that may have raised
negated_of(inner) == IF inner.kind = "Raise" THEN inner ELSE Negated(inner)

RECURSIVE to_tag(_, _)
to_tag(s, fac_context) ==
    IF IsTag(s)
    THEN s
    ELSE IF s.kind = "type"
    THEN resolve_type(s, fac_context)
    ELSE IF s.kind # "str"
    THEN Raise("AssertionError")
    ELSE IF str_startswith(s.chars, "-")
    THEN negated_of(to_tag(Str(Tail(s.chars)), None))
    ELSE LET fac == match_generator(s.chars, fac_context)
         IN IF fac # None
            THEN FromGenerator(fac.cls)
            ELSE lookup_vocabulary(str_strip(s.chars, QuoteChars))

\* to_string that returns the member's name
to_string_name(tag) ==
    IF tag.kind = "str"
    THEN tag
    ELSE IF tag.kind \in {"Semantics", "Subpart"}
    THEN Str(<<tag.name>>)
    ELSE IF tag.kind = "StringTag"
    THEN Str(<<tag.desc>>)
    ELSE IF tag.kind = "FromGenerator"
    THEN Raise("AttributeError: 'FromGenerator' object has no attribute '__name__'")
    ELSE IF tag.kind = "Negated"
    THEN Raise("ValueError: Negated tag is not allowed here")
    ELSE Raise("ValueError: to_string unhandled tag")

to_string(tag) ==
    IF tag.kind = "str"
    THEN tag
    ELSE IF tag.kind \in {"Semantics", "Subpart"}
    THEN Str(EnumValue(tag))
    ELSE IF tag.kind = "StringTag"
    THEN Str(<<tag.desc>>)
    ELSE IF tag.kind = "FromGenerator"
    THEN Raise("AttributeError: 'FromGenerator' object has no attribute '__name__'")
    ELSE IF tag.kind = "Negated"
    THEN Raise("ValueError: Negated tag is not allowed here")
    ELSE Raise("ValueError: to_string unhandled tag")

\* a Python list (or tuple) and a Python set, as values
PyList(items) == [kind |-> "list", items |-> items]
PySet(elems) == [kind |-> "set", elems |-> elems]

\* the exception that leaves a comprehension over results: the first raised
first_raise(results) ==
    results[CHOOSE i \in 1..Len(results) :
                /\ results[i].kind = "Raise"
                /\ \A j \in 1..(i - 1) : results[j].kind # "Raise"]

\* {f(xi) for xi in x}, results the sequence of the f(xi)
set_comprehension(results) ==
    IF \E i \in 1..Len(results) : results[i].kind = "Raise"
    THEN first_raise(results)
    ELSE PySet({results[i] : i \in 1..Len(results)})

\* to_tag_set that does not hand fac_context on
to_tag_set_noContext(x, fac_context) ==
    IF x = None
    THEN PySet({})
    ELSE IF x.kind = "list"
    THEN set_comprehension([i \in 1..Len(x.items) |-> to_tag(x.items[i], None)])
    ELSE set_comprehension(<<to_tag(x, None)>>)

to_tag_set(x, fac_context) ==
    IF x = None
    THEN PySet({})
    ELSE IF x.kind = "list"
    THEN set_comprehension([i \in 1..Len(x.items) |-> to_tag(x.items[i], fac_context)])
    ELSE set_comprehension(<<to_tag(x, fac_context)>>)

\* the classes a fac_context may hold; one is named like a vocabulary member
ContextGenerators == {"CounterGen", "Kitchen"}
\* the classes handed to to_tag
TypeRefs == ContextGenerators \cup {"SinkGen"}

Words ==
    SemanticsNames \cup SubpartNames \cup ContextGenerators \cup {"not_a_real_tag"}
Tokens == {"-"} \cup QuoteChars \cup Words

Texts ==
    {q \in UNION {[1..n -> Tokens] : n \in 0..MaxTextLen} :
        \A i \in 1..(Len(q) - 1) : ~(q[i] \in Words /\ q[i + 1] \in Words)}

CanonBase ==
    EnumMembers
    \cup {StringTag(d, 1) : d \in Descriptions}
    \cup {FromGenerator("CounterGen"), Variable("x"), SpecificObject("y")}

CanonTags == CanonBase \cup {Negated(t) : t \in CanonBase}

CanonInputs == {Str(q) : q \in Texts} \cup {Type(c) : c \in TypeRefs} \cup CanonTags

Contexts == {None} \cup {Dict(k) : k \in SUBSET ContextGenerators}

\* the elements of the collections handed to to_tag_set
ListElems ==
    {Str(<<"Kitchen">>), Str(<<"-", "Bedroom">>), Str(<<"'", "Kitchen", "'">>),
     Str(<<"not_a_real_tag">>), Str(<<"CounterGen">>), Semantics("Kitchen"),
     Type("CounterGen")}

Collections == {PyList(q) : q \in UNION {[1..n -> ListElems] : n \in 0..MaxListLen}}

-----------------------------------------------------------------------------
(* The vocabulary listings get_room_types and get_object_types, over the   *)
(* whole Semantics class.                                                  *)

\* list(Semantics): the member names in definition order, aliases left out
Semantics_members ==
    <<"Room", "Object", "Cutter", "Kitchen", "Bedroom", "LivingRoom",
      "Closet", "Hallway", "Bathroom", "Garage", "Balcony", "DiningRoom",
      "Utility", "StaircaseRoom", "Warehouse", "Office", "MeetingRoom",
      "OpenOffice", "BreakRoom", "Restroom", "FactoryOffice", "Root", "New",
      "RoomNode", "GroundFloor", "SecondFloor", "ThirdFloor", "Exterior",
      "Staircase", "Visited", "RoomContour", "Furniture", "FloorMat",
      "WallDecoration", "HandheldItem", "Storage", "Seating",
      "LoungeSeating", "Table", "Bathing", "SideTable", "Watchable", "Desk",
      "Bed", "Sink", "CeilingLight", "Lighting", "KitchenCounter",
      "KitchenAppliance", "TableDisplayItem", "OfficeShelfItem",
      "KitchenCounterItem", "FoodPantryItem", "BathroomItem",
      "ShelfTrinket", "Dishware", "Cookware", "Utensils", "ClothDrapeItem",
      "AccessTop", "AccessFront", "AccessAnySide", "AccessAllSides",
      "AccessStandingNear", "AccessOpenDoor", "AccessHand", "Chair",
      "Window", "Open", "Entrance", "Door", "RealPlaceholder",
      "OversizePlaceholder", "AssetAsPlaceholder",
      "AssetPlaceholderForChildren", "PlaceholderBBox", "SingleGenerator",
      "NoRotation", "NoCollision", "NoChildren">>

\* set(Semantics)
all_semantics == {Semantics(Semantics_members[i]) : i \in 1..Len(Semantics_members)}

\* the member names of Subpart
Subpart_members ==
    {"SupportSurface", "Interior", "Visible", "Bottom", "Top", "Side",
     "Back", "Front", "Ceiling", "Wall", "StaircaseWall"}

room_type_names ==
    {"Kitchen", "Bedroom", "LivingRoom", "Closet", "Hallway", "Bathroom",
     "Garage", "Balcony", "DiningRoom", "Utility", "StaircaseRoom",
     "Warehouse", "Office", "MeetingRoom", "OpenOffice", "BreakRoom",
     "Restroom", "FactoryOffice"}

room_types == {Semantics(n) : n \in room_type_names}

structural_type_names ==
    {"Root", "New", "RoomNode", "GroundFloor", "SecondFloor", "ThirdFloor",
     "Exterior", "Staircase", "Visited", "RoomContour", "Room", "Object",
     "Cutter"}

structural_types == {Semantics(n) : n \in structural_type_names}

solver_flag_names ==
    {"RealPlaceholder", "OversizePlaceholder", "AssetAsPlaceholder",
     "AssetPlaceholderForChildren", "PlaceholderBBox", "SingleGenerator",
     "NoRotation", "NoCollision", "NoChildren"}

solver_flags == {Semantics(n) : n \in solver_flag_names}

\* the code points of a member name
name_chars(n) ==
    CASE n = "Room" -> <<82, 111, 111, 109>>
      [] n = "Object" -> <<79, 98, 106, 101, 99, 116>>
      [] n = "Cutter" -> <<67, 117, 116, 116, 101, 114>>
      [] n = "Kitchen" -> <<75, 105, 116, 99, 104, 101, 110>>
      [] n = "Bedroom" -> <<66, 101, 100, 114, 111, 111, 109>>
      [] n = "LivingRoom" -> <<76, 105, 118, 105, 110, 103, 82, 111, 111, 109>>
      [] n = "Closet" -> <<67, 108, 111, 115, 101, 116>>
      [] n = "Hallway" -> <<72, 97, 108, 108, 119, 97, 121>>
      [] n = "Bathroom" -> <<66, 97, 116, 104, 114, 111, 111, 109>>
      [] n = "Garage" -> <<71, 97, 114, 97, 103, 101>>
      [] n = "Balcony" -> <<66, 97, 108, 99, 111, 110, 121>>
      [] n = "DiningRoom" -> <<68, 105, 110, 105, 110, 103, 82, 111, 111, 109>>
      [] n = "Utility" -> <<85, 116, 105, 108, 105, 116, 121>>
      [] n = "StaircaseRoom" -> <<83, 116, 97, 105, 114, 99, 97, 115, 101, 82, 111, 111, 109>>
      [] n = "Warehouse" -> <<87, 97, 114, 101, 104, 111, 117, 115, 101>>
      [] n = "Office" -> <<79, 102, 102, 105, 99, 101>>
      [] n = "MeetingRoom" -> <<77, 101, 101, 116, 105, 110, 103, 82, 111, 111, 109>>
      [] n = "OpenOffice" -> <<79, 112, 101, 110, 79, 102, 102, 105, 99, 101>>
      [] n = "BreakRoom" -> <<66, 114, 101, 97, 107, 82, 111, 111, 109>>
      [] n = "Restroom" -> <<82, 101, 115, 116, 114, 111, 111, 109>>
      [] n = "FactoryOffice" -> <<70, 97, 99, 116, 111, 114, 121, 79, 102, 102, 105, 99, 101>>
      [] n = "Root" -> <<82, 111, 111, 116>>
      [] n = "New" -> <<78, 101, 119>>
      [] n = "RoomNode" -> <<82, 111, 111, 109, 78, 111, 100, 101>>
      [] n = "GroundFloor" -> <<71, 114, 111, 117, 110, 100, 70, 108, 111, 111, 114>>
      [] n = "SecondFloor" -> <<83, 101, 99, 111, 110, 100, 70, 108, 111, 111, 114>>
      [] n = "ThirdFloor" -> <<84, 104, 105, 114, 100, 70, 108, 111, 111, 114>>
      [] n = "Exterior" -> <<69, 120, 116, 101, 114, 105, 111, 114>>
      [] n = "Staircase" -> <<83, 116, 97, 105, 114, 99, 97, 115, 101>>
      [] n = "Visited" -> <<86, 105, 115, 105, 116, 101, 100>>
      [] n = "RoomContour" -> <<82, 111, 111, 109, 67, 111, 110, 116, 111, 117, 114>>
      [] n = "Furniture" -> <<70, 117, 114, 110, 105, 116, 117, 114, 101>>
      [] n = "FloorMat" -> <<70, 108, 111, 111, 114, 77, 97, 116>>
      [] n = "WallDecoration" -> <<87, 97, 108, 108, 68, 101, 99, 111, 114, 97, 116, 105, 111, 110>>
      [] n = "HandheldItem" -> <<72, 97, 110, 100, 104, 101, 108, 100, 73, 116, 101, 109>>
      [] n = "Storage" -> <<83, 116, 111, 114, 97, 103, 101>>
      [] n = "Seating" -> <<83, 101, 97, 116, 105, 110, 103>>
      [] n = "LoungeSeating" -> <<76, 111, 117, 110, 103, 101, 83, 101, 97, 116, 105, 110, 103>>
      [] n = "Table" -> <<84, 97, 98, 108, 101>>
      [] n = "Bathing" -> <<66, 97, 116, 104, 105, 110, 103>>
      [] n = "SideTable" -> <<83, 105, 100, 101, 84, 97, 98, 108, 101>>
      [] n = "Watchable" -> <<87, 97, 116, 99, 104, 97, 98, 108, 101>>
      [] n = "Desk" -> <<68, 101, 115, 107>>
      [] n = "Bed" -> <<66, 101, 100>>
      [] n = "Sink" -> <<83, 105, 110, 107>>
      [] n = "CeilingLight" -> <<67, 101, 105, 108, 105, 110, 103, 76, 105, 103, 104, 116>>
      [] n = "Lighting" -> <<76, 105, 103, 104, 116, 105, 110, 103>>
      [] n = "KitchenCounter" -> <<75, 105, 116, 99, 104, 101, 110, 67, 111, 117, 110, 116, 101, 114>>
      [] n = "KitchenAppliance" -> <<75, 105, 116, 99, 104, 101, 110, 65, 112, 112, 108, 105, 97, 110, 99, 101>>
      [] n = "TableDisplayItem" -> <<84, 97, 98, 108, 101, 68, 105, 115, 112, 108, 97, 121, 73, 116, 101, 109>>
      [] n = "OfficeShelfItem" -> <<79, 102, 102, 105, 99, 101, 83, 104, 101, 108, 102, 73, 116, 101, 109>>
      [] n = "KitchenCounterItem" -> <<75, 105, 116, 99, 104, 101, 110, 67, 111, 117, 110, 116, 101, 114, 73, 116, 101, 109>>
      [] n = "FoodPantryItem" -> <<70, 111, 111, 100, 80, 97, 110, 116, 114, 121, 73, 116, 101, 109>>
      [] n = "BathroomItem" -> <<66, 97, 116, 104, 114, 111, 111, 109, 73, 116, 101, 109>>
      [] n = "ShelfTrinket" -> <<83, 104, 101, 108, 102, 84, 114, 105, 110, 107, 101, 116>>
      [] n = "Dishware" -> <<68, 105, 115, 104, 119, 97, 114, 101>>
      [] n = "Cookware" -> <<67, 111, 111, 107, 119, 97, 114, 101>>
      [] n = "Utensils" -> <<85, 116, 101, 110, 115, 105, 108, 115>>
      [] n = "ClothDrapeItem" -> <<67, 108, 111, 116, 104, 68, 114, 97, 112, 101, 73, 116, 101, 109>>
      [] n = "AccessTop" -> <<65, 99, 99, 101, 115, 115, 84, 111, 112>>
      [] n = "AccessFront" -> <<65, 99, 99, 101, 115, 115, 70, 114, 111, 110, 116>>
      [] n = "AccessAnySide" -> <<65, 99, 99, 101, 115, 115, 65, 110, 121, 83, 105, 100, 101>>
      [] n = "AccessAllSides" -> <<65, 99, 99, 101, 115, 115, 65, 108, 108, 83, 105, 100, 101, 115>>
      [] n = "AccessStandingNear" -> <<65, 99, 99, 101, 115, 115, 83, 116, 97, 110, 100, 105, 110, 103, 78, 101, 97, 114>>
      [] n = "AccessOpenDoor" -> <<65, 99, 99, 101, 115, 115, 79, 112, 101, 110, 68, 111, 111, 114>>
      [] n = "AccessHand" -> <<65, 99, 99, 101, 115, 115, 72, 97, 110, 100>>
      [] n = "Chair" -> <<67, 104, 97, 105, 114>>
      [] n = "Window" -> <<87, 105, 110, 100, 111, 119>>
      [] n = "Open" -> <<79, 112, 101, 110>>
      [] n = "Entrance" -> <<69, 110, 116, 114, 97, 110, 99, 101>>
      [] n = "Door" -> <<68, 111, 111, 114>>
      [] n = "RealPlaceholder" -> <<82, 101, 97, 108, 80, 108, 97, 99, 101, 104, 111, 108, 100, 101, 114>>
      [] n = "OversizePlaceholder" -> <<79, 118, 101, 114, 115, 105, 122, 101, 80, 108, 97, 99, 101, 104, 111, 108, 100, 101, 114>>
      [] n = "AssetAsPlaceholder" -> <<65, 115, 115, 101, 116, 65, 115, 80, 108, 97, 99, 101, 104, 111, 108, 100, 101, 114>>
      [] n = "AssetPlaceholderForChildren" -> <<65, 115, 115, 101, 116, 80, 108, 97, 99, 101, 104, 111, 108, 100, 101, 114, 70, 111, 114, 67, 104, 105, 108, 100, 114, 101, 110>>
      [] n = "PlaceholderBBox" -> <<80, 108, 97, 99, 101, 104, 111, 108, 100, 101, 114, 66, 66, 111, 120>>
      [] n = "SingleGenerator" -> <<83, 105, 110, 103, 108, 101, 71, 101, 110, 101, 114, 97, 116, 111, 114>>
      [] n = "NoRotation" -> <<78, 111, 82, 111, 116, 97, 116, 105, 111, 110>>
      [] n = "NoCollision" -> <<78, 111, 67, 111, 108, 108, 105, 115, 105, 111, 110>>
      [] n = "NoChildren" -> <<78, 111, 67, 104, 105, 108, 100, 114, 101, 110>>

\* a < b for two Python str, given as their code points
RECURSIVE str_lt(_, _)
str_lt(a, b) ==
    IF Len(b) = 0
    THEN FALSE
    ELSE IF Len(a) = 0
    THEN TRUE
    ELSE IF a[1] # b[1]
    THEN a[1] < b[1]
    ELSE str_lt(Tail(a), Tail(b))

\* sorted(S, key=lambda x: x.name)
RECURSIVE sorted_by_name(_)
sorted_by_name(S) ==
    IF S = {}
    THEN <<>>
    ELSE LET first == CHOOSE x \in S :
                          \A y \in S \ {x} : str_lt(name_chars(x.name), name_chars(y.name))
         IN <<first>> \o sorted_by_name(S \ {first})

get_room_types == sorted_by_name(room_types)

\* get_object_types that leaves the solver flags in
get_object_types_keepsFlags ==
    sorted_by_name(all_semantics \ (room_types \cup structural_types))

get_object_types ==
    LET exclude_types == room_types \cup structural_types \cup solver_flags
        object_types == all_semantics \ exclude_types
    IN sorted_by_name(object_types)

-----------------------------------------------------------------------------
(* The canonicalization and listing calls *)

InitCanon ==
    /\ op = "init"
    /\ t1 = {}
    /\ t2 = {}
    /\ arg \in CanonInputs \cup Collections \cup {None}
    /\ ret = None
    /\ heap = {}
    /\ context \in Contexts
    /\ parsed_data = None
    /\ input_text = None
    /\ exclusive_arg = None

CallToTag ==
    /\ op = "init"
    /\ op' = "to_tag"
    /\ ret' = to_tag(arg, context)
    /\ UNCHANGED <<t1, t2, arg, heap, context, parsed_data, input_text, exclusive_arg>>

\* to_string takes a Tag or a str
CallToString ==
    /\ op = "init"
    /\ IsTag(arg) \/ arg.kind = "str"
    /\ op' = "to_string"
    /\ ret' = to_string(arg)
    /\ UNCHANGED <<t1, t2, arg, heap, context, parsed_data, input_text, exclusive_arg>>

CallToTagSet ==
    /\ op = "init"
    /\ op' = "to_tag_set"
    /\ ret' = to_tag_set(arg, context)
    /\ UNCHANGED <<t1, t2, arg, heap, context, parsed_data, input_text, exclusive_arg>>

\* the listings take no argument and may be asked for at any time
CallGetRoomTypes ==
    /\ op' = "get_room_types"
    /\ ret' = PyList(get_room_types)
    /\ UNCHANGED <<t1, t2, arg, heap, context, parsed_data, input_text, exclusive_arg>>

CallGetObjectTypes ==
    /\ op' = "get_object_types"
    /\ ret' = PyList(get_object_types)
    /\ UNCHANGED <<t1, t2, arg, heap, context, parsed_data, input_text, exclusive_arg>>

NextCanon ==
    \/ CallToTag
    \/ CallToString
    \/ CallToTagSet
    \/ CallGetRoomTypes
    \/ CallGetObjectTypes

SpecCanon == InitCanon /\ [][NextCanon]_vars

-----------------------------------------------------------------------------
(* Sequences of calls: t1 and t2 are the tag sets at hand; what a call     *)
(* returns replaces or joins one of them and is handed to the next call.   *)

ChainBase == {Semantics("Kitchen"), Semantics("Bedroom"), FromGenerator("CounterGen")}

\* the tags at the start: none holds a Negated inside a Negated
ChainTags == ChainBase \cup {Negated(t) : t \in ChainBase}

ChainSets == {S \in SUBSET ChainTags : Cardinality(S) <= MaxS}

\* the texts handed to to_tag and to_tag_set between the other calls
ChainTexts == {Str(<<"Kitchen">>), Str(<<"-", "Kitchen">>), Str(<<"-", "-", "Kitchen">>)}

\* list(S), in some order
RECURSIVE as_list(_)
as_list(S) ==
    IF S = {}
    THEN <<>>
    ELSE LET x == CHOOSE e \in S : TRUE
         IN <<x>> \o as_list(S \ {x})

InitChain ==
    /\ op = "init"
    /\ t1 \in ChainSets
    /\ t2 \in ChainSets
    /\ arg = None
    /\ ret = None
    /\ heap = {}
    /\ context = None
    /\ parsed_data = None
    /\ input_text = None
    /\ exclusive_arg = None

\* -x for a tag of t1; the result takes the place of x
ChainNegate ==
    \E x \in t1 :
        /\ op' = "neg"
        /\ arg' = x
        /\ ret' = neg(x)
        /\ t1' = (t1 \ {x}) \cup {neg(x)}
        /\ UNCHANGED <<t2, heap, context, parsed_data, input_text, exclusive_arg>>

\* decompose_tags(t1); the two parts become the sets at hand
ChainDecompose ==
    /\ op' = "decompose"
    /\ arg' = None
    /\ ret' = decompose_tags(t1)
    /\ t1' = decompose_tags(t1)[1]
    /\ t2' = decompose_tags(t1)[2]
    /\ UNCHANGED <<heap, context, parsed_data, input_text, exclusive_arg>>

\* difference of the two sets, either way round; the result becomes t1
ChainDifference ==
    \E pair \in {<<t1, t2>>, <<t2, t1>>} :
        /\ op' = "difference"
        /\ arg' = None
        /\ ret' = difference(pair[1], pair[2])
        /\ t1' = difference(pair[1], pair[2])
        /\ t2' = pair[2]
        /\ UNCHANGED <<heap, context, parsed_data, input_text, exclusive_arg>>

\* to_tag of a tag of t1 or of a text; a tag returned joins t2
ChainToTag ==
    \E s \in t1 \cup ChainTexts :
        /\ op' = "to_tag"
        /\ arg' = s
        /\ ret' = to_tag(s, None)
        /\ t2' = IF IsTag(to_tag(s, None)) THEN t2 \cup {to_tag(s, None)} ELSE t2
        /\ UNCHANGED <<t1, heap, context, parsed_data, input_text, exclusive_arg>>

\* to_tag_set of a text and the tags of t1; a set returned becomes t1
ChainToTagSet ==
    \E s \in ChainTexts :
        LET x == PyList(<<s>> \o as_list(t1))
            result == to_tag_set(x, None)
        IN /\ op' = "to_tag_set"
           /\ arg' = x
           /\ ret' = result
           /\ t1' = IF result.kind = "set" THEN result.elems ELSE t1
           /\ UNCHANGED <<t2, heap, context, parsed_data, input_text, exclusive_arg>>

NextChain ==
    \/ ChainNegate
    \/ ChainDecompose
    \/ ChainDifference
    \/ ChainToTag
    \/ ChainToTagSet

SpecChain == InitChain /\ [][NextChain]_vars

-----------------------------------------------------------------------------
(* The NLP pipeline of infinigen_examples/nlp: the values of the parsed    *)
(* data are Python values, each a record with a "kind" field.              *)

PyBool(b) == [kind |-> "bool", val |-> b]
True == PyBool(TRUE)
False == PyBool(FALSE)
\* the value of a key a dict does not hold
Missing == [kind |-> "missing"]

\* bool(v)
truth(v) ==
    CASE v.kind = "None" -> FALSE
      [] v.kind = "missing" -> FALSE
      [] v.kind = "bool" -> v.val
      [] v.kind = "str" -> Len(v.chars) > 0
      [] v.kind = "list" -> Len(v.items) > 0
      [] v.kind = "dict" -> \E k \in DOMAIN v.get : v.get[k] # Missing

\* d.get(key, default), v the value held under the key
dict_get(v, default) == IF v = Missing THEN default ELSE v

-----------------------------------------------------------------------------
(* stage_types_to_stage_flags *)

large_types == {"on_floor_and_wall", "on_floor_freestanding"}
medium_types == {"on_wall", "on_ceiling", "side_obj"}
small_types == {"obj_ontop_obj", "obj_on_support"}
StageTypeKeys == large_types \cup medium_types \cup small_types

\* a stage_types dict: the value under each sub-type, Missing when not mentioned
StageDict(f) == [kind |-> "dict", get |-> f]

default_flags ==
    [solve_large_enabled |-> True,
     solve_medium_enabled |-> True,
     solve_small_enabled |-> True]

\* any(stage_types.get(st) is True for st in sub_types)
any_explicitly_true(stage_types, sub_types) ==
    \E st \in sub_types : stage_types.get[st] = True

\* stage_types_to_stage_flags without the stage dependencies
stage_types_to_stage_flags_ownSubTypes(stage_types, exclusive) ==
    IF ~truth(stage_types)
    THEN default_flags
    ELSE IF ~truth(exclusive)
    THEN default_flags
    ELSE [solve_large_enabled |-> PyBool(any_explicitly_true(stage_types, large_types)),
          solve_medium_enabled |-> PyBool(any_explicitly_true(stage_types, medium_types)),
          solve_small_enabled |-> PyBool(any_explicitly_true(stage_types, small_types))]

stage_types_to_stage_flags(stage_types, exclusive) ==
    IF ~truth(stage_types)
    THEN default_flags
    ELSE IF ~truth(exclusive)
    THEN default_flags
    ELSE LET solve_medium == any_explicitly_true(stage_types, medium_types)
             solve_small == any_explicitly_true(stage_types, small_types)
             solve_large ==
                 \/ any_explicitly_true(stage_types, large_types)
                 \/ solve_small
                 \/ stage_types.get["side_obj"] = True
         IN [solve_large_enabled |-> PyBool(solve_large),
             solve_medium_enabled |-> PyBool(solve_medium),
             solve_small_enabled |-> PyBool(solve_small)]

StageValues == {Missing, True, False}
StageDicts == {StageDict(f) : f \in [StageTypeKeys -> StageValues]}

InitStage ==
    /\ op = "init"
    /\ t1 = {}
    /\ t2 = {}
    /\ arg \in {None} \cup StageDicts
    /\ ret = None
    /\ heap = {}
    /\ context = None
    /\ parsed_data = None
    /\ input_text = None
    /\ exclusive_arg \in {True, False}

CallStageTypesToStageFlags ==
    /\ op = "init"
    /\ op' = "stage_types_to_stage_flags"
    /\ ret' = stage_types_to_stage_flags(arg, exclusive_arg)
    /\ UNCHANGED <<t1, t2, arg, heap, context, parsed_data, input_text, exclusive_arg>>

NextStage == CallStageTypesToStageFlags

SpecStage == InitStage /\ [][NextStage]_vars

-----------------------------------------------------------------------------
(* validate_object_classification.  parsed_data is a record of the keys    *)
(* the stage and classification steps read and write: the three object     *)
(* lists, the three stage flags, stage_types and stage_exclusive.  An      *)
(* object name is a string; a warning is kept by its kind.                 *)

PRIMARY_OBJECTS ==
    {"Bed", "Storage", "Table", "Desk", "Seating", "LoungeSeating", "KitchenCounter",
     "KitchenAppliance", "Furniture", "WallDecoration", "CeilingLight", "Chair",
     "SideTable"}

SECONDARY_OBJECTS ==
    {"Sink", "Dishware", "Cookware", "Utensils", "OfficeShelfItem",
     "KitchenCounterItem", "TableDisplayItem", "BathroomItem", "FoodPantryItem",
     "Lighting", "Watchable"}

PARENT_OBJECTS == {"KitchenCounter", "Storage", "Table", "Desk", "SideTable", "Bed"}

SECONDARY_TO_PARENT ==
    ("Sink" :> "KitchenCounter") @@ ("Dishware" :> "Table")
    @@ ("Cookware" :> "KitchenCounter") @@ ("Utensils" :> "Table")
    @@ ("KitchenCounterItem" :> "KitchenCounter")
    @@ ("FoodPantryItem" :> "KitchenCounter") @@ ("TableDisplayItem" :> "Table")
    @@ ("OfficeShelfItem" :> "Storage") @@ ("BathroomItem" :> "Storage")
    @@ ("Lighting" :> "SideTable") @@ ("Watchable" :> "Storage")
    @@ ("ShelfTrinket" :> "Storage") @@ ("HandheldItem" :> "Desk")

\* parsed_data.get(key) or []
list_or_empty(v) == IF truth(v) THEN v.items ELSE <<>>

\* obj in lst
seq_contains(lst, obj) == \E i \in 1..Len(lst) : lst[i] = obj

\* [obj for obj in lst if obj not in to_remove]
without(lst, to_remove) == SelectSeq(lst, LAMBDA obj : ~seq_contains(to_remove, obj))

\* for obj in to_add: if obj not in lst: lst.append(obj)
RECURSIVE append_missing(_, _)
append_missing(lst, to_add) ==
    IF to_add = <<>>
    THEN lst
    ELSE IF seq_contains(lst, Head(to_add))
    THEN append_missing(lst, Tail(to_add))
    ELSE append_missing(Append(lst, Head(to_add)), Tail(to_add))

\* lst if lst else None
list_or_none(lst) == IF lst = <<>> THEN None ELSE PyList(lst)

\* the inference loop that adds the parent to restrict_parent_objs only
RECURSIVE infer_parents_parentOnly(_, _)
infer_parents_parentOnly(secondary, acc) ==
    IF secondary = <<>>
    THEN acc
    ELSE LET obj == Head(secondary)
         IN IF obj \notin DOMAIN SECONDARY_TO_PARENT
            THEN infer_parents_parentOnly(Tail(secondary), acc)
            ELSE LET parent == SECONDARY_TO_PARENT[obj]
                     missing == ~seq_contains(acc.parent_objs, parent)
                 IN infer_parents_parentOnly(Tail(secondary),
                        [parent_objs |-> IF missing THEN Append(acc.parent_objs, parent)
                                         ELSE acc.parent_objs,
                         child_primary |-> acc.child_primary,
                         warnings |-> IF missing
                                      THEN Append(acc.warnings, "Auto-inferred parent")
                                      ELSE acc.warnings])

\* the loop "Auto-infer parent objects from secondary objects"
RECURSIVE infer_parents(_, _)
infer_parents(secondary, acc) ==
    IF secondary = <<>>
    THEN acc
    ELSE LET obj == Head(secondary)
         IN IF obj \notin DOMAIN SECONDARY_TO_PARENT
            THEN infer_parents(Tail(secondary), acc)
            ELSE LET parent == SECONDARY_TO_PARENT[obj]
                     missing == ~seq_contains(acc.parent_objs, parent)
                 IN infer_parents(Tail(secondary),
                        [parent_objs |-> IF missing THEN Append(acc.parent_objs, parent)
                                         ELSE acc.parent_objs,
                         child_primary |-> IF seq_contains(acc.child_primary, parent)
                                           THEN acc.child_primary
                                           ELSE Append(acc.child_primary, parent),
                         warnings |-> IF missing
                                      THEN Append(acc.warnings, "Auto-inferred parent")
                                      ELSE acc.warnings])

\* one warning of the kind for every element of moved
warnings_for(moved, kind) == [i \in 1..Len(moved) |-> kind]

\* validate_object_classification that leaves solve_small_enabled alone
validate_object_classification_noAutoEnable(data) ==
    LET parent0 == list_or_empty(data.restrict_parent_objs)
        primary0 == list_or_empty(data.restrict_child_primary)
        secondary0 == list_or_empty(data.restrict_child_secondary)
        to_remove_from_parent == SelectSeq(parent0, LAMBDA obj : obj \notin PARENT_OBJECTS)
        parent_to_primary ==
            SelectSeq(to_remove_from_parent, LAMBDA obj : obj \in PRIMARY_OBJECTS)
        parent_to_secondary ==
            SelectSeq(to_remove_from_parent,
                      LAMBDA obj : obj \notin PRIMARY_OBJECTS /\ obj \in SECONDARY_OBJECTS)
        to_remove_from_primary == SelectSeq(primary0, LAMBDA obj : obj \in SECONDARY_OBJECTS)
        to_remove_from_secondary ==
            SelectSeq(secondary0,
                      LAMBDA obj : obj \in PRIMARY_OBJECTS /\ obj \notin SECONDARY_OBJECTS)
        to_add_to_primary == parent_to_primary \o to_remove_from_secondary
        to_add_to_secondary == parent_to_secondary \o to_remove_from_primary
        parent1 == without(parent0, to_remove_from_parent)
        primary1 == append_missing(without(primary0, to_remove_from_primary), to_add_to_primary)
        secondary1 ==
            append_missing(without(secondary0, to_remove_from_secondary), to_add_to_secondary)
        moved ==
            SelectSeq(to_remove_from_parent,
                      LAMBDA obj : obj \in PRIMARY_OBJECTS \/ obj \in SECONDARY_OBJECTS)
            \o to_remove_from_primary \o to_remove_from_secondary
        inferred ==
            infer_parents(secondary1,
                [parent_objs |-> parent1, child_primary |-> primary1,
                 warnings |-> warnings_for(moved, "Automatically reclassified")])
        enable_small == FALSE
    IN [data |->
            [data EXCEPT
                !.restrict_parent_objs = list_or_none(inferred.parent_objs),
                !.restrict_child_primary = list_or_none(inferred.child_primary),
                !.restrict_child_secondary = list_or_none(secondary1),
                !.solve_small_enabled = IF enable_small THEN True ELSE @],
        is_valid |-> TRUE,
        warnings |-> IF enable_small
                     THEN Append(inferred.warnings, "auto-enabled solve_small_enabled")
                     ELSE inferred.warnings]

\* returns the updated parsed_data with the tuple (is_valid, warnings)
validate_object_classification(data) ==
    LET parent0 == list_or_empty(data.restrict_parent_objs)
        primary0 == list_or_empty(data.restrict_child_primary)
        secondary0 == list_or_empty(data.restrict_child_secondary)
        to_remove_from_parent == SelectSeq(parent0, LAMBDA obj : obj \notin PARENT_OBJECTS)
        parent_to_primary ==
            SelectSeq(to_remove_from_parent, LAMBDA obj : obj \in PRIMARY_OBJECTS)
        parent_to_secondary ==
            SelectSeq(to_remove_from_parent,
                      LAMBDA obj : obj \notin PRIMARY_OBJECTS /\ obj \in SECONDARY_OBJECTS)
        to_remove_from_primary == SelectSeq(primary0, LAMBDA obj : obj \in SECONDARY_OBJECTS)
        to_remove_from_secondary ==
            SelectSeq(secondary0,
                      LAMBDA obj : obj \in PRIMARY_OBJECTS /\ obj \notin SECONDARY_OBJECTS)
        to_add_to_primary == parent_to_primary \o to_remove_from_secondary
        to_add_to_secondary == parent_to_secondary \o to_remove_from_primary
        parent1 == without(parent0, to_remove_from_parent)
        primary1 == append_missing(without(primary0, to_remove_from_primary), to_add_to_primary)
        secondary1 ==
            append_missing(without(secondary0, to_remove_from_secondary), to_add_to_secondary)
        moved ==
            SelectSeq(to_remove_from_parent,
                      LAMBDA obj : obj \in PRIMARY_OBJECTS \/ obj \in SECONDARY_OBJECTS)
            \o to_remove_from_primary \o to_remove_from_secondary
        inferred ==
            infer_parents(secondary1,
                [parent_objs |-> parent1, child_primary |-> primary1,
                 warnings |-> warnings_for(moved, "Automatically reclassified")])
        enable_small == secondary1 # <<>> /\ ~truth(dict_get(data.solve_small_enabled, True))
    IN [data |->
            [data EXCEPT
                !.restrict_parent_objs = list_or_none(inferred.parent_objs),
                !.restrict_child_primary = list_or_none(inferred.child_primary),
                !.restrict_child_secondary = list_or_none(secondary1),
                !.solve_small_enabled = IF enable_small THEN True ELSE @],
        is_valid |-> TRUE,
        warnings |-> IF enable_small
                     THEN Append(inferred.warnings, "auto-enabled solve_small_enabled")
                     ELSE inferred.warnings]

\* the parsed data with the given values and nothing else set
ParsedData(parent_objs, child_primary, child_secondary, large, medium, small, types, excl) ==
    [restrict_parent_objs |-> parent_objs,
     restrict_child_primary |-> child_primary,
     restrict_child_secondary |-> child_secondary,
     solve_large_enabled |-> large,
     solve_medium_enabled |-> medium,
     solve_small_enabled |-> small,
     stage_types |-> types,
     stage_exclusive |-> excl]

\* the object names of the lists handed to validate_object_classification
ClassifyNames == {"Sink", "Bed", "Chair", "ShelfTrinket"}

ObjLists(names, n) ==
    {None} \cup {PyList(q) : q \in UNION {[1..k -> names] : k \in 0..n}}

InitClassify ==
    /\ op = "init"
    /\ t1 = {}
    /\ t2 = {}
    /\ arg = None
    /\ ret = None
    /\ heap = {}
    /\ context = None
    /\ parsed_data \in
          {ParsedData(p, q, s, True, True, small, Missing, Missing) :
              p \in ObjLists(ClassifyNames, MaxObjs),
              q \in ObjLists(ClassifyNames, MaxObjs),
              s \in ObjLists(ClassifyNames, MaxSecondary),
              small \in {Missing, True, False}}
    /\ input_text = None
    /\ exclusive_arg = None

\* arg keeps the parsed data as they were handed in
CallValidateObjectClassification ==
    /\ op = "init"
    /\ op' = "validate_object_classification"
    /\ arg' = parsed_data
    /\ LET result == validate_object_classification(parsed_data)
       IN /\ parsed_data' = result.data
          /\ ret' = [is_valid |-> result.is_valid, warnings |-> result.warnings]
    /\ UNCHANGED <<t1, t2, heap, context, input_text, exclusive_arg>>

NextClassify == CallValidateObjectClassification

SpecClassify == InitClassify /\ [][NextClassify]_vars

-----------------------------------------------------------------------------
(* post_process_parsed_data and validate_constraints.  A text is a         *)
(* sequence of words and a keyword occurs in it as a run of adjacent       *)
(* words; of the keywords the English ones are modelled.  The steps on     *)
(* the keys outside ParsedData (rooms, quantities, solve_steps, the other  *)
(* boolean fields) read and write none of the keys of ParsedData.          *)

\* get_default_parsed_data()[key] for a flag, None for a list; stage_types
\* and stage_exclusive have no default
fill_default(v, default) == IF v = None \/ v = Missing THEN default ELSE v

fill_defaults(data) ==
    [restrict_parent_objs |-> fill_default(data.restrict_parent_objs, None),
     restrict_child_primary |-> fill_default(data.restrict_child_primary, None),
     restrict_child_secondary |-> fill_default(data.restrict_child_secondary, None),
     solve_large_enabled |-> fill_default(data.solve_large_enabled, True),
     solve_medium_enabled |-> fill_default(data.solve_medium_enabled, True),
     solve_small_enabled |-> fill_default(data.solve_small_enabled, True),
     stage_types |-> fill_default(data.stage_types, Missing),
     stage_exclusive |-> fill_default(data.stage_exclusive, Missing)]

process_stage_types(data) ==
    LET stage_types == dict_get(data.stage_types, None)
        stage_exclusive == dict_get(data.stage_exclusive, False)
        stage_flags == stage_types_to_stage_flags(stage_types, stage_exclusive)
        override == truth(stage_types) /\ stage_types.kind = "dict" /\ truth(stage_exclusive)
        flagged ==
            [data EXCEPT
                !.solve_large_enabled = IF override THEN stage_flags.solve_large_enabled ELSE @,
                !.solve_medium_enabled = IF override THEN stage_flags.solve_medium_enabled ELSE @,
                !.solve_small_enabled = IF override THEN stage_flags.solve_small_enabled ELSE @,
                !.stage_types = Missing,
                !.stage_exclusive = Missing]
    IN IF truth(dict_get(flagged.solve_small_enabled, None))
          /\ ~truth(dict_get(flagged.solve_large_enabled, None))
       THEN [flagged EXCEPT !.solve_large_enabled = True]
       ELSE flagged

\* w.lower(), w a word
lower_word(w) ==
    CASE w = "True" -> "true"
      [] w = "False" -> "false"
      [] w = "Wall" -> "wall"
      [] OTHER -> w

\* s.lower()
str_lower(chars) == [i \in 1..Len(chars) |-> lower_word(chars[i])]

\* the strings fix_common_errors reads as true
TrueStrings == {<<"true">>, <<"1">>, <<"yes">>, <<"on">>}

\* fix_common_errors, one boolean field
fix_bool(value) ==
    IF value = None \/ value = Missing
    THEN value
    ELSE IF value.kind = "str"
    THEN PyBool(str_lower(value.chars) \in TrueStrings)
    ELSE IF value.kind # "bool"
    THEN PyBool(truth(value))
    ELSE value

fix_common_errors(data) ==
    [data EXCEPT
        !.solve_large_enabled = fix_bool(@),
        !.solve_medium_enabled = fix_bool(@),
        !.solve_small_enabled = fix_bool(@)]

\* object_name.lower().strip()
object_name_lower(name) ==
    CASE name = "Sink" -> "sink"
      [] name = "Bed" -> "bed"
      [] name = "Chair" -> "chair"
      [] name = "ShelfTrinket" -> "shelftrinket"
      [] name = "KitchenCounter" -> "kitchencounter"
      [] name = "Storage" -> "storage"
      [] OTHER -> name

\* the entries of OBJECT_MAPPINGS for the names of the model, each tag by its name
OBJECT_MAPPINGS ==
    ("sink" :> "Sink") @@ ("bed" :> "Bed") @@ ("chair" :> "Chair")
    @@ ("shelftrinket" :> "ShelfTrinket") @@ ("kitchencounter" :> "KitchenCounter")
    @@ ("storage" :> "Storage")

\* map_object_name_to_tag(name).name, or None
map_object_name_to_tag(name) ==
    IF object_name_lower(name) \in DOMAIN OBJECT_MAPPINGS
    THEN Str(<<OBJECT_MAPPINGS[object_name_lower(name)]>>)
    ELSE None

\* normalize_object_names, one key
normalize_names(v) ==
    IF ~truth(v)
    THEN v
    ELSE PyList([i \in 1..Len(v.items) |->
                    LET mapped == map_object_name_to_tag(v.items[i])
                    IN IF mapped # None THEN mapped.chars[1] ELSE v.items[i]])

normalize_object_names(data) ==
    [data EXCEPT
        !.restrict_parent_objs = normalize_names(@),
        !.restrict_child_primary = normalize_names(@),
        !.restrict_child_secondary = normalize_names(@)]

\* keyword in text
str_contains(chars, keyword) ==
    \E i \in 0..(Len(chars) - Len(keyword)) :
        \A j \in 1..Len(keyword) : chars[i + j] = keyword[j]

StageFlagsOf(large, medium, small) ==
    [solve_large_enabled |-> PyBool(large),
     solve_medium_enabled |-> PyBool(medium),
     solve_small_enabled |-> PyBool(small)]

fallback_extract_stage_flags(text) ==
    LET lowered == str_lower(text.chars)
    IN IF str_contains(lowered, <<"floor", "and", "wall", "only">>)
       THEN StageFlagsOf(TRUE, TRUE, FALSE)
       ELSE IF str_contains(lowered, <<"floor", "only">>)
       THEN StageFlagsOf(TRUE, FALSE, FALSE)
       ELSE IF str_contains(lowered, <<"wall", "only">>)
       THEN StageFlagsOf(FALSE, TRUE, FALSE)
       ELSE IF str_contains(lowered, <<"on", "top", "only">>)
       THEN StageFlagsOf(TRUE, FALSE, TRUE)
       ELSE None

post_process_parsed_data(data, text) ==
    LET processed ==
            normalize_object_names(fix_common_errors(process_stage_types(fill_defaults(data))))
        stage_override == IF truth(text) THEN fallback_extract_stage_flags(text) ELSE None
    IN IF stage_override # None
       THEN [processed EXCEPT
                !.solve_large_enabled = stage_override.solve_large_enabled,
                !.solve_medium_enabled = stage_override.solve_medium_enabled,
                !.solve_small_enabled = stage_override.solve_small_enabled]
       ELSE processed

\* {tag.name for tag in get_all_object_types()}
available_object_names == {OBJECT_MAPPINGS[k] : k \in DOMAIN OBJECT_MAPPINGS}

\* validate_object_types: is the name one of the valid ones
valid_object(obj) ==
    map_object_name_to_tag(obj) # None \/ obj \in available_object_names

\* the loop of validate_constraints over the three object keys, one key
drop_invalid(v) ==
    IF ~truth(v)
    THEN v
    ELSE IF \A i \in 1..Len(v.items) : valid_object(v.items[i])
    THEN v
    ELSE list_or_none(SelectSeq(v.items, valid_object))

\* one warning for every key that held an invalid name
invalid_warnings(data) ==
    LET one(v) ==
            IF truth(v) /\ \E i \in 1..Len(v.items) : ~valid_object(v.items[i])
            THEN <<"Invalid object types">>
            ELSE <<>>
    IN one(data.restrict_parent_objs) \o one(data.restrict_child_primary)
       \o one(data.restrict_child_secondary)

validate_stage_flags(data) ==
    \/ truth(dict_get(data.solve_large_enabled, True))
    \/ truth(dict_get(data.solve_medium_enabled, True))
    \/ truth(dict_get(data.solve_small_enabled, True))

\* returns the updated parsed_data with the tuple (is_valid, warnings)
validate_constraints(data) ==
    LET filtered ==
            [data EXCEPT
                !.restrict_parent_objs = drop_invalid(@),
                !.restrict_child_primary = drop_invalid(@),
                !.restrict_child_secondary = drop_invalid(@)]
        classified == validate_object_classification(filtered)
        stages_valid == validate_stage_flags(classified.data)
    IN [data |->
            IF stages_valid
            THEN classified.data
            ELSE [classified.data EXCEPT
                     !.solve_large_enabled = True,
                     !.solve_medium_enabled = True,
                     !.solve_small_enabled = True],
        is_valid |-> classified.is_valid /\ stages_valid,
        warnings |->
            invalid_warnings(data) \o classified.warnings
            \o (IF stages_valid THEN <<>> ELSE <<"All stages are disabled">>)]

\* the LLM outputs and the input texts of the pipeline
FlagValues == {None, True, False, Str(<<"true">>), Str(<<"false">>)}

LLMOutputs ==
    {ParsedData(p, q, s, large, medium, small, types, excl) :
        p \in {None, PyList(<<"sink">>)},
        q \in {None, PyList(<<"gizmo", "Bed">>)},
        s \in {None, PyList(<<>>), PyList(<<"sink">>), PyList(<<"gizmo">>), PyList(<<"Bed">>)},
        large \in FlagValues,
        medium \in {None, False},
        small \in FlagValues,
        types \in {None,
                   StageDict([k \in StageTypeKeys |-> IF k = "on_wall" THEN True ELSE Missing]),
                   StageDict([k \in StageTypeKeys |->
                                 IF k = "obj_ontop_obj" THEN True
                                 ELSE IF k = "on_wall" THEN False ELSE Missing])},
        excl \in {None, True, False}}

InputTexts ==
    {None, Str(<<"a", "kitchen">>), Str(<<"floor", "only">>), Str(<<"on", "the", "Wall", "only">>),
     Str(<<"on", "top", "only">>), Str(<<"floor", "and", "wall", "only">>)}

InitPipeline ==
    /\ op = "init"
    /\ t1 = {}
    /\ t2 = {}
    /\ arg = None
    /\ ret = None
    /\ heap = {}
    /\ context = None
    /\ parsed_data \in LLMOutputs
    /\ input_text \in InputTexts
    /\ exclusive_arg = None

\* arg keeps the LLM output as it was handed in
CallPostProcess ==
    /\ op = "init"
    /\ op' = "post_process_parsed_data"
    /\ arg' = parsed_data
    /\ parsed_data' = post_process_parsed_data(parsed_data, input_text)
    /\ ret' = parsed_data'
    /\ UNCHANGED <<t1, t2, heap, context, input_text, exclusive_arg>>

CallValidateConstraints ==
    /\ op = "post_process_parsed_data"
    /\ op' = "validate_constraints"
    /\ LET result == validate_constraints(parsed_data)
       IN /\ parsed_data' = result.data
          /\ ret' = [is_valid |-> result.is_valid, warnings |-> result.warnings]
    /\ UNCHANGED <<t1, t2, arg, heap, context, input_text, exclusive_arg>>

NextPipeline ==
    \/ CallPostProcess
    \/ CallValidateConstraints

SpecPipeline == InitPipeline /\ [][NextPipeline]_vars

-----------------------------------------------------------------------------
(* The vocabulary the properties are stated in *)

\* the non-Negated elements of a tag set
positive(S) == {t \in S : t.kind # "Negated"}
\* the tags wrapped by the Negated elements of a tag set
negative(S) == {t.tag : t \in {u \in S : u.kind = "Negated"}}
\* the Negated value wrapping x
Wrapped(x) == [kind |-> "Negated", tag |-> x]
IsIdentity(t) == t.kind \in {"Variable", "SpecificObject"}
IsGenerator(t) == t.kind = "FromGenerator"

\* some tag together with its negation
HasTagAndNegation(S) == \E t \in S : Wrapped(t) \in S
\* two FromGenerator tags with different generators, both un-negated
HasTwoPositiveGenerators(S) ==
    \E a \in S, b \in S :
        IsGenerator(a) /\ IsGenerator(b) /\ a.generator # b.generator
\* two distinct un-negated tags of kind Variable or SpecificObject
HasTwoPositiveIdentities(S) ==
    \E a \in S, b \in S : IsIdentity(a) /\ IsIdentity(b) /\ a # b
\* the Variable / SpecificObject tags of S, un-negated or inside a Negated
IdentitiesAnywhere(S) == {t \in positive(S) \cup negative(S) : IsIdentity(t)}
\* the elements of S that are or wrap a Variable / SpecificObject tag
IdentityElements(S) ==
    {t \in S : IsIdentity(t) \/ (t.kind = "Negated" /\ IsIdentity(t.tag))}

-----------------------------------------------------------------------------
(* C1: implies(t1, t2) is true exactly when contradiction(t1) is false,    *)
(* positive(t1) contains positive(t2) and negative(t1) contains            *)
(* negative(t2); whether t2 is contradictory plays no part.                *)
C1_ImpliesExactly ==
    op = "implies" =>
        (ret = TRUE <=>
            /\ ~contradiction(t1)
            /\ positive(t2) \subseteq positive(t1)
            /\ negative(t2) \subseteq negative(t1))

\* implies answered true for a second operand with both polarities
C1_Witness ==
    /\ op = "implies"
    /\ ret = TRUE
    /\ positive(t2) # {}
    /\ negative(t2) # {}

(* C2: satisfies(t1, t2) is true exactly when positive(t1) contains        *)
(* positive(t2), negative(t1) is disjoint from positive(t2) and            *)
(* negative(t2) is disjoint from positive(t1); satisfies(t, {}) is true    *)
(* for every t and satisfies({A}, {negate(A)}) is false.                   *)
C2_SatisfiesExactly ==
    op = "satisfies" =>
        /\ ret = TRUE <=>
            /\ positive(t2) \subseteq positive(t1)
            /\ negative(t1) \cap positive(t2) = {}
            /\ negative(t2) \cap positive(t1) = {}
        /\ t2 = {} => ret = TRUE
        /\ (\E a \in positive(t1) : t1 = {a} /\ t2 = {Wrapped(a)}) => ret = FALSE

\* satisfies answered true although t1 is contradictory and lacks a negative of t2
C2_Witness ==
    /\ op = "satisfies"
    /\ ret = TRUE
    /\ contradiction(t1)
    /\ ~(negative(t2) \subseteq negative(t1))

(* C3: whenever implies(t1, t2) returns true, satisfies(t1, t2) is true;   *)
(* the converse fails, e.g. for t1 = {A} and t2 = {negate(B)}.             *)
C3_ImpliesEntailsSatisfies ==
    (op = "implies" /\ ret = TRUE) => satisfies(t1, t2)

\* satisfies is true and implies is false for t1 = {A}, t2 = {negate(B)}
C3_Witness ==
    /\ op = "satisfies"
    /\ ret = TRUE
    /\ ~implies(t1, t2)
    /\ \E a \in positive(t1), b \in negative(t2) :
          a # b /\ t1 = {a} /\ t2 = {Wrapped(b)}

(* C4: contradiction(S) is true for every S that holds a tag with its      *)
(* negation, or two un-negated FromGenerator tags of different generators, *)
(* or two distinct un-negated Variable / SpecificObject tags, whatever     *)
(* else S holds.                                                           *)
C4_ContradictionDetects ==
    (/\ op = "contradiction"
     /\ \/ HasTagAndNegation(t1)
        \/ HasTwoPositiveGenerators(t1)
        \/ HasTwoPositiveIdentities(t1)) => ret = TRUE

\* two generators reported contradictory beside an unrelated negated tag
C4_Witness ==
    /\ op = "contradiction"
    /\ ret = TRUE
    /\ HasTwoPositiveGenerators(t1)
    /\ ~HasTagAndNegation(t1)
    /\ ~HasTwoPositiveIdentities(t1)
    /\ negative(t1) # {}

(* C5 as stated: every tag set with more than one Variable /               *)
(* SpecificObject tag, un-negated or wrapped in Negated, is reported       *)
(* contradictory.                                                          *)
C5_CountsBothPolarities ==
    (op = "contradiction" /\ Cardinality(IdentityElements(t1)) > 1) => ret = TRUE

(* C5 amended: contradiction counts only the un-negated Variable /         *)
(* SpecificObject tags: more than one of them makes the set contradictory, *)
(* and a set with no tag in both polarities, at most one un-negated        *)
(* FromGenerator and at most one un-negated Variable / SpecificObject is   *)
(* not contradictory, however many such tags it holds inside Negated.      *)
C5_CountsPositiveOnly ==
    op = "contradiction" =>
        /\ Cardinality({t \in positive(t1) : IsIdentity(t)}) > 1 => ret = TRUE
        /\ (/\ positive(t1) \cap negative(t1) = {}
            /\ Cardinality({t \in positive(t1) : IsGenerator(t)}) <= 1
            /\ Cardinality({t \in positive(t1) : IsIdentity(t)}) <= 1) => ret = FALSE

\* {Variable, negate(SpecificObject)} or two negated identities: not contradictory
C5_Witness ==
    /\ op = "contradiction"
    /\ ret = FALSE
    /\ Cardinality(IdentityElements(t1)) > 1
    /\ \E t \in negative(t1) : IsIdentity(t)

(* C6: contradiction returns false for the empty set, for a singleton of   *)
(* one Negated tag, and whenever no tag occurs in both polarities, at most *)
(* one FromGenerator is un-negated and at most one Variable /              *)
(* SpecificObject tag is present.                                          *)
C6_NoFalsePositive ==
    op = "contradiction" =>
        /\ t1 = {} => ret = FALSE
        /\ (Cardinality(t1) = 1 /\ negative(t1) # {}) => ret = FALSE
        /\ (/\ positive(t1) \cap negative(t1) = {}
            /\ Cardinality({t \in positive(t1) : IsGenerator(t)}) <= 1
            /\ Cardinality(IdentityElements(t1)) <= 1) => ret = FALSE

\* a set with one un-negated and one negated FromGenerator is consistent
C6_Witness ==
    /\ op = "contradiction"
    /\ ret = FALSE
    /\ \E a \in positive(t1), b \in negative(t1) : IsGenerator(a) /\ IsGenerator(b)

(* C7: difference(t1, t2) returns exactly                                  *)
(* (p1 \cup (n2 \ n1)) \cup {negate(x) : x \in n1 \cup (p2 \ p1)}          *)
(* and leaves t1 and t2 as they were.                                      *)
C7_DifferenceExactly ==
    [][op' = "difference" =>
        /\ ret' = (positive(t1) \cup (negative(t2) \ negative(t1)))
                  \cup {Wrapped(x) : x \in negative(t1) \cup (positive(t2) \ positive(t1))}
        /\ t1' = t1
        /\ t2' = t2]_vars

\* a difference that moved a tag of each operand to the other polarity
C7_Witness ==
    /\ op = "difference"
    /\ negative(t2) \ negative(t1) # {}
    /\ positive(t2) \ positive(t1) # {}
    /\ negative(t1) # {}
    /\ ret # t1

(* C8: for every non-empty tag set T, difference(T, T) is contradictory.   *)
C8_SelfDifferenceContradictory ==
    (op = "difference" /\ t1 = t2 /\ t1 # {}) => contradiction(ret)

(* C9: negation is an involution: for every non-negated tag x of any kind, *)
(* negate(x) is the Negated wrapping x and differs from x, and             *)
(* negate(negate(x)) = x; negating a Negated returns its inner tag, never  *)
(* a double wrapper.                                                       *)
C9_NegationInvolution ==
    op = "neg" =>
        /\ arg.kind # "Negated" =>
              /\ ret = Wrapped(arg)
              /\ ret # arg
              /\ neg(ret) = arg
        /\ arg.kind = "Negated" =>
              /\ ret = arg.tag
              /\ ret.kind \notin {"Negated", "Raise"}
              /\ neg(ret) = arg

\* a negated StringTag object was negated back to the object itself
C9_Witness ==
    /\ op = "neg"
    /\ arg.kind = "Negated"
    /\ arg.tag.kind = "StringTag"
    /\ ret \in heap
    /\ ret.kind = "StringTag"

(* C10: constructing a Negated from a Negated fails with the assertion of  *)
(* the constructor and yields no value; no Negated value that exists wraps *)
(* a Negated.                                                              *)
C10_NoDoubleNegated ==
    /\ (op = "Negated" /\ arg.kind = "Negated") => ret = Raise("AssertionError")
    /\ \A v \in Existing \cup {ret} : v.kind = "Negated" => v.tag.kind # "Negated"

\* the constructor was called on a Negated value and raised
C10_Witness ==
    /\ op = "Negated"
    /\ arg.kind = "Negated"
    /\ arg \in heap
    /\ ret.kind = "Raise"

(* C11: decompose(S) returns (positive, negative): positive is the set of  *)
(* the non-Negated elements of S, negative the set of the inner tags of    *)
(* its Negated elements; decompose of the empty set is ({}, {}); S is not  *)
(* modified.                                                               *)
C11_DecomposeExactly ==
    [][op' = "decompose" =>
        /\ ret' = <<{t \in t1 : t.kind # "Negated"},
                    {Negated_neg(t) : t \in {u \in t1 : u.kind = "Negated"}}>>
        /\ t1 = {} => ret' = <<{}, {}>>
        /\ t1' = t1]_vars

\* a set with elements of both polarities was decomposed
C11_Witness ==
    /\ op = "decompose"
    /\ Cardinality(ret[1]) >= 1
    /\ Cardinality(ret[2]) >= 2
    /\ ret[2] \cap t1 = {}

(* C13: for a non-contradictory t1 and a subset t2 of t1, implies(t1, t2)  *)
(* and satisfies(t1, t2) are true, and the implication in the other        *)
(* direction is false when the subset is proper; implies(T, T) is true for *)
(* a non-contradictory T.                                                  *)
C13_SubsetImplied ==
    /\ (op = "implies" /\ ~contradiction(t1) /\ t2 \subseteq t1) => ret = TRUE
    /\ (op = "satisfies" /\ ~contradiction(t1) /\ t2 \subseteq t1) => ret = TRUE
    /\ (op = "implies" /\ ~contradiction(t2) /\ t1 \subseteq t2 /\ t1 # t2) => ret = FALSE
    /\ (op = "implies" /\ ~contradiction(t1) /\ t2 \subseteq t1 /\ t1 # t2) => ~implies(t2, t1)

\* implies({Kitchen, FromGenerator(CounterGen)}, {Kitchen}) answered true
C13_Witness ==
    /\ op = "implies"
    /\ t1 = {Semantics("Kitchen"), FromGenerator("CounterGen")}
    /\ t2 = {Semantics("Kitchen")}
    /\ ret = TRUE
    /\ ~implies(t2, t1)
    /\ satisfies(t1, t2)

(* C14: if satisfies(s, t1) and implies(t1, t2) are true then              *)
(* satisfies(s, t2) is true, for all tag sets s, t1, t2.                   *)
C14_ImpliesPreservesSatisfies ==
    (op = "implies" /\ ret = TRUE) =>
        \A s \in TagSets(MaxS) : satisfies(s, t1) => satisfies(s, t2)

\* an implication with a non-empty conclusion, and a set satisfying its premise
C14_Witness ==
    /\ op = "implies"
    /\ ret = TRUE
    /\ t1 # t2
    /\ negative(t2) # {}
    /\ \E s \in TagSets(MaxS) : s # t1 /\ satisfies(s, t1) /\ satisfies(s, t2)

\* same kind and equal field values (a StringTag's field is its description)
SameKindAndFields(a, b) ==
    /\ a.kind = b.kind
    /\ IF a.kind = "StringTag" THEN a.desc = b.desc ELSE a = b

(* C12: tags are equal iff they are of the same kind with equal field      *)
(* values; two StringTag values built separately from the same description *)
(* are equal, are one element of a tag set, and make                       *)
(* {StringTag(d), negate(StringTag(d))} contradictory.                     *)
C12_EqualityByValue ==
    \A a \in Existing, b \in Existing :
        SameKindAndFields(a, b) =>
            /\ a = b
            /\ Cardinality({a, b}) = 1
            /\ a.kind = "StringTag" => contradiction({a, neg(b)})

-----------------------------------------------------------------------------
(* Properties of canonicalization *)

VocabNames == SemanticsNames \cup SubpartNames
\* the vocabulary member of a name
VocabularyMember(w) == IF w \in SemanticsNames THEN Semantics(w) ELSE Subpart(w)
\* q without the quote characters that surround it
Stripped(q) ==
    LET inner == {i \in 1..Len(q) : q[i] \notin QuoteChars}
    IN IF inner = {}
       THEN <<>>
       ELSE SubSeq(q, CHOOSE i \in inner : \A j \in inner : i <= j,
                      CHOOSE i \in inner : \A j \in inner : i >= j)
UnresolvedTagName ==
    Raise("ValueError: could not resolve s, see tags.Semantics and tags.Subpart")
UnresolvedReference ==
    {Raise("ValueError: to_tag got s but fac_context is empty"),
     Raise("ValueError: s of type=type was not in fac_context")}

(* C15: for every member name s of Semantics or Subpart, to_tag("-" + s)   *)
(* with no generator context is negate(to_tag(s)), the Negated wrapping    *)
(* the member; to_tag("Kitchen") is the Kitchen member of Semantics.       *)
C15_DashNegatesVocabulary ==
    (op = "to_tag" /\ context = None) =>
        /\ \A w \in VocabNames :
              arg = Str(<<"-", w>>) =>
                  /\ ret = Wrapped(VocabularyMember(w))
                  /\ ret = neg(to_tag(Str(<<w>>), None))
        /\ arg = Str(<<"Kitchen">>) => ret = Semantics("Kitchen")

\* to_tag("-Kitchen") returned the negated Kitchen member
C15_Witness ==
    /\ op = "to_tag"
    /\ context = None
    /\ arg = Str(<<"-", "Kitchen">>)
    /\ ret = Wrapped(Semantics("Kitchen"))

(* C16: for a vocabulary name s, to_tag("--" + s) equals to_tag(s): the    *)
(* double negation is collapsed, neither nested nor a failure.             *)
C16_DoubleDashCollapses ==
    (op = "to_tag" /\ context = None) =>
        \A w \in VocabNames :
            arg = Str(<<"-", "-", w>>) => ret = VocabularyMember(w)

(* C17: with a generator context that holds a generator g of display name  *)
(* s, to_tag("-" + s, ctx) returns negate(FromGenerator(g)).               *)
C17_ContextAppliesToNegatedText ==
    (op = "to_tag" /\ context.kind = "dict") =>
        \A g \in context.keys :
            arg = Str(<<"-">> \o type_name(g)) => ret = Wrapped(FromGenerator(g))

(* C18: for text that does not start with "-": a generator of the context  *)
(* with that display name wins, also over a vocabulary member of the same  *)
(* name; otherwise the surrounding quotes are stripped and the text is     *)
(* looked up by member name in Semantics, then in Subpart; otherwise       *)
(* to_tag fails with the error that names both vocabularies.               *)
C18_ResolutionOrder ==
    (op = "to_tag" /\ arg.kind = "str" /\ ~(Len(arg.chars) > 0 /\ arg.chars[1] = "-")) =>
        IF context.kind = "dict" /\ \E g \in context.keys : type_name(g) = arg.chars
        THEN \E g \in context.keys : type_name(g) = arg.chars /\ ret = FromGenerator(g)
        ELSE LET q == Stripped(arg.chars)
             IN IF Len(q) = 1 /\ q[1] \in SemanticsNames
                THEN ret = Semantics(q[1])
                ELSE IF Len(q) = 1 /\ q[1] \in SubpartNames
                THEN ret = Subpart(q[1])
                ELSE ret = UnresolvedTagName

\* the generator named Kitchen was preferred to the Kitchen member
C18_Witness ==
    /\ op = "to_tag"
    /\ arg = Str(<<"Kitchen">>)
    /\ context.kind = "dict"
    /\ ret = FromGenerator("Kitchen")

(* C19: to_tag of a class g returns FromGenerator(g) only with a non-empty *)
(* context that holds g, and fails with the unresolved-reference error     *)
(* otherwise; to_tag of a Tag returns it unchanged whatever the context.   *)
C19_TypeNeedsContext ==
    op = "to_tag" =>
        /\ arg.kind = "type" =>
              IF context.kind = "dict" /\ context.keys # {} /\ arg.cls \in context.keys
              THEN ret = FromGenerator(arg.cls)
              ELSE ret \in UnresolvedReference
        /\ IsTag(arg) => ret = arg

\* a class missing from a non-empty context was refused
C19_Witness ==
    /\ op = "to_tag"
    /\ arg.kind = "type"
    /\ context.kind = "dict"
    /\ context.keys # {}
    /\ arg.cls \notin context.keys
    /\ ret \in UnresolvedReference

(* C20: to_string maps a Semantics or Subpart tag to its value string      *)
(* (to_string(to_tag("Kitchen")) = "kitchen") and a StringTag to its       *)
(* description; it fails on every Negated, Variable and SpecificObject     *)
(* tag.                                                                    *)
C20_ToStringByKind ==
    /\ to_string(to_tag(Str(<<"Kitchen">>), None)) = Str(<<"kitchen">>)
    /\ op = "to_string" =>
          /\ arg = Semantics("Kitchen") => ret = Str(<<"kitchen">>)
          /\ arg = Semantics("Bedroom") => ret = Str(<<"bedroom">>)
          /\ arg = Subpart("Top") => ret = Str(<<"top">>)
          /\ arg.kind = "StringTag" => ret = Str(<<arg.desc>>)
          /\ arg.kind = "Negated" => ret = Raise("ValueError: Negated tag is not allowed here")
          /\ arg.kind \in {"Variable", "SpecificObject"} =>
                ret = Raise("ValueError: to_string unhandled tag")

\* to_string refused a negated vocabulary tag
C20_Witness ==
    /\ op = "to_string"
    /\ arg = Wrapped(Semantics("Kitchen"))
    /\ ret.kind = "Raise"

(* C21: to_string of a FromGenerator tag returns the display name of the   *)
(* generator it refers to.                                                 *)
C21_ToStringOfGenerator ==
    (op = "to_string" /\ arg.kind = "FromGenerator") =>
        ret = Str(type_name(arg.generator))

(* C28: whenever implies(t1, t2) returns true, t2 is not contradictory.    *)
C28_ImpliedIsConsistent ==
    (op = "implies" /\ ret = TRUE) => contradiction(t2) = FALSE

\* an implication that holds, with a conclusion of two tags in both polarities
C28_Witness ==
    /\ op = "implies"
    /\ ret = TRUE
    /\ positive(t2) # {}
    /\ negative(t2) # {}
    /\ t1 # t2

ElementsOf(x) == IF x.kind = "list" THEN {x.items[i] : i \in 1..Len(x.items)} ELSE {x}

(* C22: to_tag_set(None) is the empty set; for a collection it is the set  *)
(* of to_tag(e, fac_context) over the elements e, duplicates collapsed;    *)
(* for a bare scalar it is the singleton of to_tag of it;                  *)
(* to_tag_set(["Kitchen", "-Bedroom"]) = {Kitchen, negate(Bedroom)}; and   *)
(* when to_tag fails on an element the whole call fails.                   *)
C22_ToTagSetExactly ==
    op = "to_tag_set" =>
        /\ arg = None => ret = PySet({})
        /\ arg # None =>
              IF \E e \in ElementsOf(arg) : to_tag(e, context).kind = "Raise"
              THEN ret.kind = "Raise"
              ELSE ret = PySet({to_tag(e, context) : e \in ElementsOf(arg)})
        /\ (arg = PyList(<<Str(<<"Kitchen">>), Str(<<"-", "Bedroom">>)>>) /\ context = None) =>
              ret = PySet({Semantics("Kitchen"), Wrapped(Semantics("Bedroom"))})

C22_Witness ==
    /\ op = "to_tag_set"
    /\ arg = PyList(<<Str(<<"Kitchen">>), Str(<<"-", "Bedroom">>)>>)
    /\ context = None
    /\ ret = PySet({Semantics("Kitchen"), Wrapped(Semantics("Bedroom"))})


\* the members declared under "Room types" in the Semantics class
RoomCategory ==
    {"Kitchen", "Bedroom", "LivingRoom", "Closet", "Hallway", "Bathroom",
     "Garage", "Balcony", "DiningRoom", "Utility", "StaircaseRoom",
     "Warehouse", "Office", "MeetingRoom", "OpenOffice", "BreakRoom",
     "Restroom", "FactoryOffice"}

\* a listing is in strictly ascending order of member name
SortedByName(l) ==
    \A i \in 1..Len(l) : \A j \in (i + 1)..Len(l) :
        str_lt(name_chars(l[i].name), name_chars(l[j].name))

ListedIn(l) == {l[i] : i \in 1..Len(l)}

(* C23: get_room_types and get_object_types return lists in ascending      *)
(* order of member name without duplicates; the room list holds exactly    *)
(* the room-category members, the object list exactly the Semantics        *)
(* members in none of the room, structural and solver-flag categories; the *)
(* two lists are disjoint, hold no Subpart member, and are the same on     *)
(* every call.                                                             *)
C23_ListingsExactly ==
    /\ op = "get_room_types" =>
          /\ SortedByName(ret.items)
          /\ ListedIn(ret.items) = {Semantics(n) : n \in RoomCategory}
          /\ ListedIn(ret.items) \cap ListedIn(get_object_types) = {}
          /\ \A x \in ListedIn(ret.items) : x.kind = "Semantics" /\ x.name \notin Subpart_members
    /\ op = "get_object_types" =>
          /\ SortedByName(ret.items)
          /\ ListedIn(ret.items) =
                {x \in all_semantics :
                    /\ x.name \notin RoomCategory
                    /\ x \notin structural_types
                    /\ x \notin solver_flags}
          /\ ListedIn(ret.items) \cap ListedIn(get_room_types) = {}
          /\ \A x \in ListedIn(ret.items) : x.kind = "Semantics" /\ x.name \notin Subpart_members

C23_Witness ==
    /\ op = "get_object_types"
    /\ Len(ret.items) > 1
    /\ ret.items[1] = Semantics("AccessAllSides")
    /\ Semantics("Chair") \in ListedIn(ret.items)


\* the sub-types of a stage
SubTypesOf(stage) ==
    CASE stage = "solve_large_enabled" -> {"on_floor_and_wall", "on_floor_freestanding"}
      [] stage = "solve_medium_enabled" -> {"on_wall", "on_ceiling", "side_obj"}
      [] stage = "solve_small_enabled" -> {"obj_ontop_obj", "obj_on_support"}

StageFlags == {"solve_large_enabled", "solve_medium_enabled", "solve_small_enabled"}

OwnSubTypeTrue(stage_types, stage) ==
    \E st \in SubTypesOf(stage) : stage_types.get[st] = True

NamesIn(v) == IF v.kind = "list" THEN {v.items[i] : i \in 1..Len(v.items)} ELSE {}

(* C27: after validate_object_classification, whatever the three lists     *)
(* held: every element of restrict_parent_objs is in PARENT_OBJECTS, no    *)
(* element of restrict_child_primary is in SECONDARY_OBJECTS, no element   *)
(* of restrict_child_secondary is in PRIMARY_OBJECTS, the parent of every  *)
(* element of restrict_child_secondary with an entry in                    *)
(* SECONDARY_TO_PARENT is in restrict_parent_objs and in                   *)
(* restrict_child_primary, and an empty list is stored as None.            *)
C27_ClassificationInvariants ==
    op = "validate_object_classification" =>
        /\ NamesIn(parsed_data.restrict_parent_objs) \subseteq PARENT_OBJECTS
        /\ NamesIn(parsed_data.restrict_child_primary) \cap SECONDARY_OBJECTS = {}
        /\ NamesIn(parsed_data.restrict_child_secondary) \cap PRIMARY_OBJECTS = {}
        /\ \A obj \in NamesIn(parsed_data.restrict_child_secondary) \cap DOMAIN SECONDARY_TO_PARENT :
              /\ SECONDARY_TO_PARENT[obj] \in NamesIn(parsed_data.restrict_parent_objs)
              /\ SECONDARY_TO_PARENT[obj] \in NamesIn(parsed_data.restrict_child_primary)
        /\ \A v \in {parsed_data.restrict_parent_objs, parsed_data.restrict_child_primary,
                      parsed_data.restrict_child_secondary} :
              v = None \/ (v.kind = "list" /\ v.items # <<>>)

C27_Witness ==
    /\ op = "validate_object_classification"
    /\ arg.restrict_parent_objs = PyList(<<"Sink">>)
    /\ arg.restrict_child_primary = PyList(<<"Chair">>)
    /\ arg.restrict_child_secondary = PyList(<<"Bed", "ShelfTrinket">>)
    /\ parsed_data.restrict_parent_objs = PyList(<<"Storage", "KitchenCounter">>)
    /\ parsed_data.restrict_child_primary = PyList(<<"Chair", "Bed", "Storage", "KitchenCounter">>)
    /\ parsed_data.restrict_child_secondary = PyList(<<"ShelfTrinket", "Sink">>)


\* a warning of the kind is among those validation returned
Warned(kind) == \E i \in 1..Len(ret.warnings) : ret.warnings[i] = kind

(* C25: after post_process_parsed_data and then validate_constraints, for  *)
(* every LLM output and input text, a non-empty restrict_child_secondary   *)
(* implies that solve_small_enabled is True.                               *)
C25_SecondaryEnablesSmall ==
    op = "validate_constraints" =>
        (truth(parsed_data.restrict_child_secondary) =>
            parsed_data.solve_small_enabled = True)

C25_Witness ==
    /\ op = "validate_constraints"
    /\ input_text = Str(<<"floor", "only">>)
    /\ truth(parsed_data.restrict_child_secondary)
    /\ Warned("auto-enabled solve_small_enabled")
    /\ parsed_data.solve_small_enabled = True

(* C26: after post_process_parsed_data and then validate_constraints, for  *)
(* every LLM output (boolean or string-typed flags, any stage_types) and   *)
(* every input text, solve_small_enabled being True implies that           *)
(* solve_large_enabled is True.                                            *)
C26_SmallRequiresLarge ==
    op = "validate_constraints" =>
        (parsed_data.solve_small_enabled = True =>
            parsed_data.solve_large_enabled = True)


\* a Negated that wraps a Negated
Nested(v) == v.kind = "Negated" /\ v.tag.kind = "Negated"

\* the tags the last call returned
ReturnedTags ==
    CASE op = "decompose" -> ret[1] \cup ret[2]
      [] op = "difference" -> ret
      [] op = "to_tag_set" -> IF ret.kind = "set" THEN ret.elems ELSE {}
      [] op \in {"neg", "to_tag"} -> {ret}
      [] OTHER -> {}

(* C30: over every sequence of negate, decompose, difference, to_tag and   *)
(* to_tag_set calls on tags without a Negated inside a Negated, no call    *)
(* returns a value holding a nested Negated, and difference never fails    *)
(* on constructing a Negated of a Negated: every tag it wraps on the sets  *)
(* at hand comes from a positive part or is the inner tag of a Negated.    *)
C30_NoNestedNegation ==
    /\ \A v \in t1 \cup t2 \cup ReturnedTags : ~Nested(v)
    /\ \A pair \in {<<t1, t2>>, <<t2, t1>>} :
          LET d1 == decompose_tags(pair[1])
              d2 == decompose_tags(pair[2])
          IN \A n \in d1[2] \cup (d2[1] \ d1[1]) :
                 /\ ~isinstance(n, "Negated")
                 /\ Negated(n) # Raise("AssertionError")
                 /\ n \in positive(pair[2]) \/ Wrapped(n) \in pair[1]

C30_Witness ==
    /\ op = "difference"
    /\ \E v \in ret : isinstance(v, "Negated") /\ v.tag \in t2
    /\ \E w \in ret : ~isinstance(w, "Negated") /\ Wrapped(w) \in t2
    /\ \E u \in ret : isinstance(u, "Negated") /\ u.tag \notin t2 /\ Wrapped(u.tag) \notin t2

====
